---- MODULE Spec2Model ----
(***************************************************************************)
(* CryptoNight (package cryptonight): Cache.Sum and the package-level Sum. *)
(*                                                                         *)
(* Two abstraction levels share this module.                               *)
(*                                                                         *)
(*  Spec      runs Cache.Sum end to end, statement group by statement      *)
(*            group, on a reduced geometry: a byte has ByteBits bits (the  *)
(*            source: 8), so a uint64 has 8*ByteBits bits, the scratchpad  *)
(*            has 2^LogChunks chunks of 16 words (the source: 2^14) and    *)
(*            the memory-hard loop runs Iterations times (the source:      *)
(*            524288).  Every shift, mask and offset of the source is kept *)
(*            as a count of bytes.  The same call is run on a second,      *)
(*            freshly allocated Cache, which is what the package-level Sum *)
(*            does.                                                        *)
(*                                                                         *)
(*  SpecGeom  runs the loops of Sum with the source's own constants        *)
(*            (262144 words, mask 0x1ffff0), the data abstracted: the      *)
(*            accumulators of an iteration are arbitrary 64-bit values.    *)
(*                                                                         *)
(*  SpecDiv, SpecShuffle apply one statement group of the loop to inputs   *)
(*            drawn from bounded sets.                                     *)
(*                                                                         *)
(* Keccak, the AES rounds, byteMul and the four finalist hashes live in    *)
(* packages whose code is not part of the modelled file; they are stand-ins*)
(* with the interface the design document gives them.                      *)
(***************************************************************************)
EXTENDS Integers, Sequences, FiniteSets, TLC

----------------------------------------------------------------------------
(* Bounds of the reduced geometry *)

ByteBits == 2

LogChunks == 1

Iterations == 3

----------------------------------------------------------------------------
(* Word arithmetic: a uint64 of 8 bytes, a uint32 of 4, a uint16 of 2 *)

WordBits == 8 * ByteBits
Mod == 2 ^ WordBits
HalfBits == 4 * ByteBits
HalfMod == 2 ^ HalfBits
U16Mod == 2 ^ (2 * ByteBits)
ByteMod == 2 ^ ByteBits
Word == 0 .. (Mod - 1)

RECURSIVE XorBits(_, _, _)
XorBits(x, y, n) ==
  IF n = 0 THEN 0
  ELSE ((x + y) % 2) + 2 * XorBits(x \div 2, y \div 2, n - 1)

RECURSIVE AndBits(_, _, _)
AndBits(x, y, n) ==
  IF n = 0 THEN 0
  ELSE ((x % 2) * (y % 2)) + 2 * AndBits(x \div 2, y \div 2, n - 1)

XorNib == [x \in 0 .. 15 |-> [y \in 0 .. 15 |-> XorBits(x, y, 4)]]
AndNib == [x \in 0 .. 15 |-> [y \in 0 .. 15 |-> AndBits(x, y, 4)]]

RECURSIVE Xor(_, _)
\* x ^ y on unsigned integers
Xor(x, y) ==
  IF x = 0 THEN y
  ELSE IF y = 0 THEN x
  ELSE XorNib[x % 16][y % 16] + 16 * Xor(x \div 16, y \div 16)

RECURSIVE And(_, _)
\* x & y on unsigned integers
And(x, y) ==
  IF x = 0 \/ y = 0 THEN 0
  ELSE AndNib[x % 16][y % 16] + 16 * And(x \div 16, y \div 16)

\* x | y on unsigned integers
Or(x, y) == x + y - And(x, y)

\* x << n and x >> n on a uint64
Shl(x, n) == IF n >= WordBits THEN 0 ELSE (x % (2 ^ (WordBits - n))) * (2 ^ n)
Shr(x, n) == x \div (2 ^ n)

\* ^x & 1 on a uint64
NotBit0(x) == 1 - (x % 2)

\* a [2]uint64 and the other fixed-size arrays, indexed from 0 as in the source
Pair(x0, x1) == [k \in 0 .. 1 |-> IF k = 0 THEN x0 ELSE x1]

----------------------------------------------------------------------------
(* Inputs: a byte slice is its backing array (the capacity) and its length *)

Byte == 0 .. (ByteMod - 1)

Fill(n, seed) == [k \in 1 .. n |-> (k * seed + (k \div 4)) % ByteMod]

Slice(arr, n) == [arr |-> arr, len |-> n]

\* len < 43 = cap; len < 43 <= cap; len = 43; len > 43
DataSet ==
  { Slice(Fill(10, 1), 10), Slice(Fill(64, 3), 10),
    Slice(Fill(43, 1), 43), Slice(Fill(48, 3), 48) }

VariantSet == 0 .. 3

\* data[:len(data)], what a callee ranging over the slice sees
BytesOf(d) == SubSeq(d.arr, 1, d.len)

\* the slice expression data[lo:hi] panics unless 0 <= lo <= hi <= cap(data)
SliceInRange(d, lo, hi) == 0 <= lo /\ lo <= hi /\ hi <= Len(d.arr)

RECURSIVE LittleEndianUint64(_)
\* binary.LittleEndian.Uint64 of a sequence of 8 bytes
LittleEndianUint64(bs) ==
  IF bs = << >> THEN 0
  ELSE Head(bs) + ByteMod * LittleEndianUint64(Tail(bs))

----------------------------------------------------------------------------
(* Stand-ins for the packages Sum calls *)

RECURSIVE AbsorbSum(_, _, _)
\* the bytes bs[lo .. hi], each weighted by its place
AbsorbSum(bs, lo, hi) ==
  IF lo > hi THEN 0
  ELSE IF lo = hi THEN ((bs[lo] + 1) * (2 * lo + 1)) % Mod
  ELSE LET mid == (lo + hi) \div 2
       IN  (AbsorbSum(bs, lo, mid) + AbsorbSum(bs, mid + 1, hi)) % Mod

KeccakLanes(h) == [i \in 0 .. 24 |-> (h * (2 * i + 1) + 37 * i + 11) % Mod]

\* sha3.Keccak1600State(&st, data): every lane of st is set from data alone
Keccak1600State(bs) ==
  KeccakLanes((Len(bs) + 1 + AbsorbSum(bs, 1, Len(bs))) % Mod)

\* sha3.Keccak1600Permute(&st): every lane is set from the whole state
Keccak1600Permute(st) ==
  [i \in 0 .. 24 |->
     (5 * st[i] + 3 * st[(i + 1) % 25] + st[(i + 7) % 25]
        + Xor(st[(i + 12) % 25], st[(i + 18) % 25]) + i + 1) % Mod]

\* SubBytes, ShiftRows, MixColumns of one 128-bit block
SubShiftMix(x) ==
  Pair((5 * x[1] + 3 * x[0] + 1) % Mod, (7 * x[0] + x[1] + 2) % Mod)

\* the 128-bit round key held in four uint32
KeyWords(rk) == Pair(rk[0] + HalfMod * rk[1], rk[2] + HalfMod * rk[3])

\* one round: (SubBytes, ShiftRows, MixColumns), then AddRoundKey
cnRound(x, rk) ==
  LET y == SubShiftMix(x)
      k == KeyWords(rk)
  IN  Pair(Xor(y[0], k[0]), Xor(y[1], k[1]))

\* aes.CnSingleRound(dst, src, rkey): dst is the result
CnSingleRound(src, rkey) == cnRound(src, rkey)

\* CnRounds = (SubBytes, ShiftRows, MixColumns, AddRoundKey) * 10
RoundsPerCall == 10

RECURSIVE cnRoundsFrom(_, _, _)
cnRoundsFrom(x, rkeys, r) ==
  IF r = RoundsPerCall THEN x
  ELSE cnRoundsFrom(cnRound(x, [k \in 0 .. 3 |-> rkeys[4 * r + k]]), rkeys, r + 1)

\* aes.CnRounds(dst, src, rkeys): ten rounds, round r under rkeys[4r .. 4r+3]
CnRounds(src, rkeys) == cnRoundsFrom(src, rkeys, 0)

\* the eight uint32 that follow the eight uint32 p in the key schedule
NextKeyWords(p, g) ==
  LET w0 == Xor(p[1], (7 * p[8] + g) % HalfMod)
      w1 == Xor(p[2], w0)
      w2 == Xor(p[3], w1)
      w3 == Xor(p[4], w2)
      w4 == Xor(p[5], (3 * w3 + 1) % HalfMod)
      w5 == Xor(p[6], w4)
      w6 == Xor(p[7], w5)
      w7 == Xor(p[8], w6)
  IN  <<w0, w1, w2, w3, w4, w5, w6, w7>>

RECURSIVE KeySchedule(_, _, _)
KeySchedule(done, last, g) ==
  IF g = 5 THEN done
  ELSE LET nxt == NextKeyWords(last, g)
       IN  KeySchedule(done \o nxt, nxt, g + 1)

\* aes.CnExpandKey(key, rkeys): the first two round keys are the key itself
CnExpandKey(key) ==
  LET raw == <<key[0] % HalfMod, key[0] \div HalfMod,
               key[1] % HalfMod, key[1] \div HalfMod,
               key[2] % HalfMod, key[2] \div HalfMod,
               key[3] % HalfMod, key[3] \div HalfMod>>
      all == KeySchedule(raw, raw, 1)
  IN  [i \in 0 .. 39 |-> all[i + 1]]

\* byteMul(product, x, y): product[0] the high, product[1] the low uint64 of x*y
byteMul(x, y) ==
  LET xl == x % HalfMod
      xh == x \div HalfMod
      yl == y % HalfMod
      yh == y \div HalfMod
      mid == xh * yl + xl * yh
      low == xl * yl + (mid % HalfMod) * HalfMod
  IN  Pair(xh * yh + (mid \div HalfMod) + (low \div Mod), low % Mod)

\* uint64(math.Sqrt(float64(x))): exact below 2^52, where sqrt rounds correctly
Sqrt(x) == CHOOSE r \in 0 .. HalfMod : r * r <= x /\ x < (r + 1) * (r + 1)

FinalistNames == <<"BLAKE-256", "Groestl-256", "JH-256", "Skein-256">>

\* a hash.Hash: which finalist it is and what has been written to it
NewHash(name) == [alg |-> name, written |-> << >>]
HashWrite(h, bs) == [h EXCEPT !.written = Append(h.written, bs)]
RECURSIVE Concat(_)
Concat(ss) == IF ss = << >> THEN << >> ELSE Head(ss) \o Concat(Tail(ss))
\* h.Sum(nil): the digest of everything written
HashSum(h) == [alg |-> h.alg, of |-> Concat(h.written)]

----------------------------------------------------------------------------
(* The macros of the source *)

\* U64_U8(a, 0, 25): the bytes of 25 uint64 on a little-endian host
U64_U8(st) ==
  [n \in 1 .. 200 |-> (st[(n - 1) \div 8] \div (ByteMod ^ ((n - 1) % 8))) % ByteMod]

\* U64_U32(a, 0, 2): the four uint32 of a [2]uint64
U64_U32(a) ==
  [k \in 0 .. 3 |-> (a[k \div 2] \div (HalfMod ^ (k % 2))) % HalfMod]

\* U64_U16_LEN8(a, begin): the eight uint16 at a[begin], a[begin+1]
U64_U16_LEN8(sp, begin) ==
  [k \in 0 .. 7 |-> (sp[begin + (k \div 4)] \div (U16Mod ^ (k % 4))) % U16Mod]

\* the uint64 whose four uint16 are ch[k], .., ch[k+3]
PackU16(ch, k) ==
  ch[k] + U16Mod * ch[k + 1] + (U16Mod ^ 2) * ch[k + 2] + (U16Mod ^ 3) * ch[k + 3]

\* the scratchpad with the eight uint16 at begin replaced by ch
StoreU16(sp, begin, ch) ==
  [sp EXCEPT ![begin] = PackU16(ch, 0), ![begin + 1] = PackU16(ch, 4)]

\* a slip: the 24 assignments made one chunk after the other, each reading
\* what the one before has already overwritten
VARIANT2_SHUFFLE_Sequential(sp, addr) ==
  LET i0 == Xor(addr, 2)
      i1 == Xor(addr, 4)
      i2 == Xor(addr, 6)
      c2 == U64_U16_LEN8(sp, i2)
      sp0 == StoreU16(sp, i0,
               [k \in 0 .. 7 |->
                  <<c2[2], c2[6], c2[3], c2[7], c2[0], c2[1], c2[4], c2[5]>>[k + 1]])
      c0 == U64_U16_LEN8(sp0, i0)
      sp1 == StoreU16(sp0, i1,
               [k \in 0 .. 7 |->
                  <<c0[2], c0[5], c0[3], c0[4], c0[6], c0[7], c0[0], c0[1]>>[k + 1]])
      c1 == U64_U16_LEN8(sp1, i1)
  IN  StoreU16(sp1, i2,
        [k \in 0 .. 7 |->
           <<c1[1], c1[5], c1[0], c1[4], c1[2], c1[3], c1[6], c1[7]>>[k + 1]])

\* VARIANT2_SHUFFLE(): Go evaluates the right-hand side before it assigns
VARIANT2_SHUFFLE(sp, addr) ==
  LET i0 == Xor(addr, 2)
      i1 == Xor(addr, 4)
      i2 == Xor(addr, 6)
      chunk0 == U64_U16_LEN8(sp, i0)
      chunk1 == U64_U16_LEN8(sp, i1)
      chunk2 == U64_U16_LEN8(sp, i2)
      new0 == [k \in 0 .. 7 |->
                 <<chunk2[2], chunk2[6], chunk2[3], chunk2[7],
                   chunk2[0], chunk2[1], chunk2[4], chunk2[5]>>[k + 1]]
      new1 == [k \in 0 .. 7 |->
                 <<chunk0[2], chunk0[5], chunk0[3], chunk0[4],
                   chunk0[6], chunk0[7], chunk0[0], chunk0[1]>>[k + 1]]
      new2 == [k \in 0 .. 7 |->
                 <<chunk1[1], chunk1[5], chunk1[0], chunk1[4],
                   chunk1[2], chunk1[3], chunk1[6], chunk1[7]>>[k + 1]]
  IN  StoreU16(StoreU16(StoreU16(sp, i0, new0), i1, new1), i2, new2)

----------------------------------------------------------------------------
(* The reduced geometry *)

\* len(cache.scratchpad): 2*1024*1024/8 in the source, 16 words a chunk
ScratchWords == 16 * (2 ^ LogChunks)

\* 0x1ffff0 in the source: the scratchpad's size in bytes, less 16
AddrMask == 8 * ScratchWords - 16

\* TO_ADDR(a): the index, in uint64, of the cell a[0] selects
TO_ADDR(a) == Shr(And(a[0], AddrMask), 3)

----------------------------------------------------------------------------
(* State *)

VARIABLES
  pc,       \* where the two calls of Sum stand (they run the same statements)
  data,     \* the argument data
  variant,  \* the argument variant
  run,      \* cache.Sum(data, variant): the caller's Cache and the call's locals
  one,      \* Sum(data, variant): new(Cache) and the call's locals
  geom,     \* SpecGeom: the loops of Sum at the source's sizes
  probe     \* SpecDiv, SpecShuffle: one statement group and its operands

vars == <<pc, data, variant, run, one, geom, probe>>

ZeroState == [i \in 0 .. 24 |-> 0]
ZeroPad == [i \in 0 .. (ScratchWords - 1) |-> 0]
ZeroPair == Pair(0, 0)

\* a slice header: the array it points into and where it starts
Ref(base, off) == [base |-> base, off |-> off]

RefRead(s, ref, j) ==
  IF ref.base = "finalState" THEN s.finalState[ref.off + j]
  ELSE IF ref.base = "scratchpad" THEN s.scratchpad[ref.off + j]
  ELSE s.buf[ref.off + j]

RefWrite(s, ref, j, v) ==
  IF ref.base = "finalState" THEN [s EXCEPT !.finalState[ref.off + j] = v]
  ELSE IF ref.base = "scratchpad" THEN [s EXCEPT !.scratchpad[ref.off + j] = v]
  ELSE [s EXCEPT !.buf[ref.off + j] = v]

\* Sum has returned nothing (yet)
NoDigest == [alg |-> "none", of |-> << >>]

\* a call of Sum on the Cache (fs, sp): every local holds its zero value
Frame(fs, sp) ==
  [ finalState |-> fs, scratchpad |-> sp,
    tweak |-> 0, t |-> 0,
    divisionResult |-> 0, sqrtResult |-> 0, dividend |-> 0, divisor |-> 0,
    key |-> Ref("nil", 0), rkeys |-> [k \in 0 .. 39 |-> 0],
    blocks |-> Ref("nil", 0), buf |-> [k \in 0 .. 15 |-> 0],
    a |-> ZeroPair, b |-> ZeroPair, c |-> ZeroPair, product |-> ZeroPair,
    addr |-> 0, i |-> 0,
    h |-> NewHash("nil"), sum |-> NoDigest,
    \* history: the Cache was not the zero value when the call began
    dirty |-> ~(fs = ZeroState /\ sp = ZeroPad) ]

\* what a Cache may hold before its first call: the zero value, or anything
Garbage(n) == [i \in 0 .. (n - 1) |-> (Mod - 1 - 3 * i) % Mod]

PriorCaches ==
  { [finalState |-> ZeroState, scratchpad |-> ZeroPad],
    [finalState |-> Garbage(25), scratchpad |-> Garbage(ScratchWords)] }

NoGeom == [pc |-> "off"]
NoProbe == [op |-> "off"]

Init ==
  /\ pc = "idle"
  /\ data = Slice(<< >>, 0)
  /\ variant = 0
  /\ \E p \in PriorCaches : run = Frame(p.finalState, p.scratchpad)
  /\ one = Frame(ZeroState, ZeroPad)
  /\ geom = NoGeom
  /\ probe = NoProbe

\* both calls take the step f
Both(f(_)) == run' = f(run) /\ one' = f(one)

Args == <<data, variant, geom, probe>>

----------------------------------------------------------------------------
(* Cache.Sum, statement group by statement group *)

\* a caller calls cache.Sum on its Cache as the last call left it, and Sum
\* on new(Cache)
Call ==
  /\ pc \in {"idle", "done"}
  /\ pc' = "absorb"
  /\ data' \in DataSet
  /\ variant' \in VariantSet
  /\ run' = Frame(run.finalState, run.scratchpad)
  /\ one' = Frame(ZeroState, ZeroPad)
  /\ UNCHANGED <<geom, probe>>

KeccakStep(s) == [s EXCEPT !.finalState = Keccak1600State(BytesOf(data))]

Absorb ==
  /\ pc = "absorb"
  /\ Both(KeccakStep)
  /\ pc' = "tweak"
  /\ UNCHANGED Args

\* data[35:43] is in range
TweakInRange == SliceInRange(data, 35, 43)

TweakStep(s) ==
  IF variant = 1
  THEN [s EXCEPT !.tweak =
          Xor(s.finalState[24], LittleEndianUint64(SubSeq(data.arr, 35 + 1, 43)))]
  ELSE s

Tweak ==
  /\ pc = "tweak"
  /\ variant = 1 => TweakInRange
  /\ Both(TweakStep)
  /\ pc' = "expand"
  /\ UNCHANGED Args

\* the slice expression panics: Sum returns nothing
TweakPanic ==
  /\ pc = "tweak"
  /\ variant = 1 /\ ~TweakInRange
  /\ pc' = "panic"
  /\ UNCHANGED <<run, one>>
  /\ UNCHANGED Args

\* a slip: blocks := cache.finalState[8:24], with no copy made
InitBlocks_Aliased(s) == [s EXCEPT !.blocks = Ref("finalState", 8)]

\* blocks := make([]uint64, 16); copy(blocks, cache.finalState[8:24])
InitBlocks(s) ==
  [s EXCEPT !.buf = [k \in 0 .. 15 |-> s.finalState[8 + k]],
            !.blocks = Ref("buf", 0)]

InitSetupStep(s) ==
  LET s1 == [s EXCEPT !.key = Ref("finalState", 0)]
      s2 == [s1 EXCEPT !.rkeys =
                CnExpandKey([k \in 0 .. 3 |-> RefRead(s1, s1.key, k)])]
  IN  [InitBlocks(s2) EXCEPT !.i = 0]

InitSetup ==
  /\ pc = "expand"
  /\ Both(InitSetupStep)
  /\ pc' = "init"
  /\ UNCHANGED Args

\* aes.CnRounds(x[j:], x[j:], rkeys) through the slice x
RoundsInPlace(s, ref, j) ==
  LET r == CnRounds(Pair(RefRead(s, ref, j), RefRead(s, ref, j + 1)), s.rkeys)
  IN  RefWrite(RefWrite(s, ref, j, r[0]), ref, j + 1, r[1])

RECURSIVE InitInner(_, _)
\* for j := 0; j < 16; j += 2 { aes.CnRounds(blocks[j:], blocks[j:], rkeys) }
InitInner(s, j) ==
  IF j < 16 THEN InitInner(RoundsInPlace(s, s.blocks, j), j + 2) ELSE s

\* copy(cache.scratchpad[i:], blocks): min(len(dst), len(src)) words
CopyToPad(s) ==
  LET n == IF ScratchWords - s.i < 16 THEN ScratchWords - s.i ELSE 16
  IN  [s EXCEPT !.scratchpad =
         [k \in 0 .. (ScratchWords - 1) |->
            IF s.i <= k /\ k < s.i + n THEN RefRead(s, s.blocks, k - s.i)
            ELSE s.scratchpad[k]]]

\* a slip: the loop stops one chunk short of the scratchpad's end
InitLoopCond_OneChunkShort(i) == i < ScratchWords - 16

\* for i := 0; i < 2*1024*1024/8; i += 16, of the scratchpad init
InitLoopCond(i) == i < ScratchWords

InitChunkStep(s) == [CopyToPad(InitInner(s, 0)) EXCEPT !.i = s.i + 16]

InitChunk ==
  /\ pc = "init"
  /\ InitLoopCond(run.i)
  /\ Both(InitChunkStep)
  /\ pc' = "init"
  /\ UNCHANGED Args

LoopSetupStep(s) ==
  [s EXCEPT !.a = Pair(Xor(s.finalState[0], s.finalState[4]),
                       Xor(s.finalState[1], s.finalState[5])),
            !.b = Pair(Xor(s.finalState[2], s.finalState[6]),
                       Xor(s.finalState[3], s.finalState[7])),
            !.c = ZeroPair, !.product = ZeroPair, !.addr = 0, !.i = 0]

LoopSetup ==
  /\ pc = "init"
  /\ ~InitLoopCond(run.i)
  /\ Both(LoopSetupStep)
  /\ pc' = "round"
  /\ UNCHANGED Args

\* for i := 0; i < 524288; i++
LoopCond(i) == i < Iterations

IterRoundStep(s) ==
  LET addr == TO_ADDR(s.a)
  IN  [s EXCEPT !.addr = addr,
                !.c = CnSingleRound(Pair(s.scratchpad[addr], s.scratchpad[addr + 1]),
                                    U64_U32(s.a))]

IterRound ==
  /\ pc = "round"
  /\ LoopCond(run.i)
  /\ Both(IterRoundStep)
  /\ pc' = IF variant = 2 THEN "shuffle1" ELSE "write1"
  /\ UNCHANGED Args

ShuffleStep(s) ==
  [s EXCEPT !.scratchpad = VARIANT2_SHUFFLE(s.scratchpad, s.addr)]

Shuffle1 ==
  /\ pc = "shuffle1"
  /\ Both(ShuffleStep)
  /\ pc' = "write1"
  /\ UNCHANGED Args

\* t = ((^t)&1)<<4 | (((^t)&1)<<4&t)<<1 | (t&32)>>1
TweakBits(t) ==
  LET n == Shl(NotBit0(t), 4)
  IN  Or(Or(n, Shl(And(n, t), 1)), Shr(And(t, 32), 1))

Write1Step(s) ==
  LET w0 == Xor(s.b[0], s.c[0])
      w1 == Xor(s.b[1], s.c[1])
      t == TweakBits(Shr(w1, 3 * ByteBits))
      s1 == [s EXCEPT !.scratchpad[s.addr] = w0,
                      !.scratchpad[s.addr + 1] = w1,
                      !.b = s.c]
  IN  IF variant = 1
      THEN [s1 EXCEPT !.t = t,
                      !.scratchpad[s.addr + 1] = Xor(w1, Shl(t, 3 * ByteBits))]
      ELSE s1

Write1 ==
  /\ pc = "write1"
  /\ Both(Write1Step)
  /\ pc' = "read2"
  /\ UNCHANGED Args

\* a slip: the & 0xffffffff is left out
Divisor_Unmasked(b) == Or(b[0], (HalfMod \div 2) + 1)

\* divisor = b[0]&0xffffffff | 0x80000001
Divisor(b) == Or(And(b[0], HalfMod - 1), (HalfMod \div 2) + 1)

\* divisionResult = (dividend/divisor)&0xffffffff | ((dividend % divisor) << 32)
DivisionResult(dividend, divisor) ==
  Or(And(dividend \div divisor, HalfMod - 1), Shl(dividend % divisor, HalfBits))

\* the statements under the second "if variant == 2" of the loop
Variant2Arith(s) ==
  LET dividend == s.b[1]
      divisor == Divisor(s.b)
      divisionResult == DivisionResult(dividend, divisor)
  IN  [s EXCEPT !.c[1] = Xor(s.c[1], Xor(s.divisionResult, s.sqrtResult)),
                !.dividend = dividend,
                !.divisor = divisor,
                !.divisionResult = divisionResult,
                !.sqrtResult =
                   Sqrt(Shr((s.b[0] + divisionResult) % Mod, 2 * ByteBits))]

Read2Step(s) ==
  LET addr == TO_ADDR(s.b)
      s1 == [s EXCEPT !.addr = addr,
                      !.c = Pair(s.scratchpad[addr], s.scratchpad[addr + 1])]
      s2 == IF variant = 2 THEN Variant2Arith(s1) ELSE s1
  IN  [s2 EXCEPT !.product = byteMul(s2.b[0], s2.c[0])]

Read2 ==
  /\ pc = "read2"
  /\ Both(Read2Step)
  /\ pc' = IF variant = 2 THEN "shuffle2" ELSE "add"
  /\ UNCHANGED Args

Shuffle2 ==
  /\ pc = "shuffle2"
  /\ Both(ShuffleStep)
  /\ pc' = "add"
  /\ UNCHANGED Args

\* the cell written at addr after byteAdd, and the variant 1 tweak on it
StoreA(s, a0, a1) ==
  LET s1 == [s EXCEPT !.scratchpad[s.addr] = a0, !.scratchpad[s.addr + 1] = a1]
  IN  IF variant = 1
      THEN [s1 EXCEPT !.scratchpad[s.addr + 1] = Xor(a1, s.tweak)]
      ELSE s1

\* a slip: tweak is xored into the accumulator, not into the stored cell
AddStep_TweakIntoA(s) ==
  LET a0 == (s.a[0] + s.product[0]) % Mod
      a1 == (s.a[1] + s.product[1]) % Mod
      s1 == [s EXCEPT !.scratchpad[s.addr] = a0, !.scratchpad[s.addr + 1] = a1]
      x1 == IF variant = 1 THEN Xor(Xor(a1, s.c[1]), s.tweak) ELSE Xor(a1, s.c[1])
  IN  [s1 EXCEPT !.a = Pair(Xor(a0, s.c[0]), x1), !.i = s.i + 1]

AddStep(s) ==
  LET a0 == (s.a[0] + s.product[0]) % Mod
      a1 == (s.a[1] + s.product[1]) % Mod
  IN  [StoreA(s, a0, a1) EXCEPT !.a = Pair(Xor(a0, s.c[0]), Xor(a1, s.c[1])),
                                !.i = s.i + 1]

Add ==
  /\ pc = "add"
  /\ Both(AddStep)
  /\ pc' = "round"
  /\ UNCHANGED Args

FinalSetupStep(s) ==
  LET s1 == [s EXCEPT !.key = Ref("finalState", 4)]
  IN  [s1 EXCEPT !.rkeys = CnExpandKey([k \in 0 .. 3 |-> RefRead(s1, s1.key, k)]),
                 !.blocks = Ref("finalState", 8),
                 !.i = 0]

FinalSetup ==
  /\ pc = "round"
  /\ ~LoopCond(run.i)
  /\ Both(FinalSetupStep)
  /\ pc' = "final"
  /\ UNCHANGED Args

\* for i := 0; i < 2*1024*1024/8; i += 16, of the result calculation
FinalLoopCond(i) == i < ScratchWords

RECURSIVE FinalInner(_, _)
\* for j := 0; j < 16; j += 2 { xor the block in; CnRounds in place }
FinalInner(s, j) ==
  IF j < 16
  THEN LET k == s.i + j
           s1 == [s EXCEPT
                    !.scratchpad[k] = Xor(s.scratchpad[k], RefRead(s, s.blocks, j)),
                    !.scratchpad[k + 1] =
                       Xor(s.scratchpad[k + 1], RefRead(s, s.blocks, j + 1))]
       IN  FinalInner(RoundsInPlace(s1, Ref("scratchpad", k), 0), j + 2)
  ELSE s

FinalChunkStep(s) ==
  [FinalInner(s, 0) EXCEPT !.blocks = Ref("scratchpad", s.i), !.i = s.i + 16]

FinalChunk ==
  /\ pc = "final"
  /\ FinalLoopCond(run.i)
  /\ Both(FinalChunkStep)
  /\ pc' = "final"
  /\ UNCHANGED Args

\* copy(cache.finalState[8:24], blocks)
CopyBackStep(s) ==
  [s EXCEPT !.finalState =
     [k \in 0 .. 24 |->
        IF 8 <= k /\ k < 24 THEN RefRead(s, s.blocks, k - 8) ELSE s.finalState[k]]]

CopyBack ==
  /\ pc = "final"
  /\ ~FinalLoopCond(run.i)
  /\ Both(CopyBackStep)
  /\ pc' = "permute"
  /\ UNCHANGED Args

PermuteStep(s) == [s EXCEPT !.finalState = Keccak1600Permute(s.finalState)]

Permute ==
  /\ pc = "permute"
  /\ Both(PermuteStep)
  /\ pc' = "dispatch"
  /\ UNCHANGED Args

\* a slip: the cases 0x01 and 0x02 are exchanged
Finalist_Exchanged(st) ==
  LET sel == And(st[0], 3)
  IN  IF sel = 0 THEN "BLAKE-256"
      ELSE IF sel = 1 THEN "JH-256"
      ELSE IF sel = 2 THEN "Groestl-256"
      ELSE "Skein-256"

\* switch cache.finalState[0] & 0x03
Finalist(st) ==
  LET sel == And(st[0], 3)
  IN  IF sel = 0 THEN "BLAKE-256"
      ELSE IF sel = 1 THEN "Groestl-256"
      ELSE IF sel = 2 THEN "JH-256"
      ELSE "Skein-256"

DispatchStep(s) == [s EXCEPT !.h = NewHash(Finalist(s.finalState))]

Dispatch ==
  /\ pc = "dispatch"
  /\ Both(DispatchStep)
  /\ pc' = "write"
  /\ UNCHANGED Args

\* h.Write(U64_U8(cache.finalState, 0, 25)[:])
WriteStep(s) == [s EXCEPT !.h = HashWrite(s.h, U64_U8(s.finalState))]

Write ==
  /\ pc = "write"
  /\ Both(WriteStep)
  /\ pc' = "return"
  /\ UNCHANGED Args

\* return h.Sum(nil)
ReturnStep(s) == [s EXCEPT !.sum = HashSum(s.h)]

Return ==
  /\ pc = "return"
  /\ Both(ReturnStep)
  /\ pc' = "done"
  /\ UNCHANGED Args

Next ==
  \/ Call \/ Absorb \/ Tweak \/ TweakPanic \/ InitSetup \/ InitChunk
  \/ LoopSetup \/ IterRound \/ Shuffle1 \/ Write1 \/ Read2 \/ Shuffle2 \/ Add
  \/ FinalSetup \/ FinalChunk \/ CopyBack \/ Permute \/ Dispatch \/ Write
  \/ Return

Spec == Init /\ [][Next]_vars

----------------------------------------------------------------------------
(* Claims checked under Spec *)

Valid == variant \in {0, 1, 2}

\* C1: whatever the Cache held before the call (the zero value, anything, or
\* what an earlier call left), cache.Sum(data, variant) returns the digest
\* that Sum(data, variant) computes on a new Cache: once the scratchpad init
\* has run the two scratchpads agree word for word, and from the absorb on
\* the two Keccak states agree lane for lane.
C1_CacheReuseEquivalence ==
  Valid =>
    /\ pc = "done" => (run.sum # NoDigest /\ run.sum = one.sum)
    /\ pc \notin {"idle", "absorb"} => run.finalState = one.finalState
    /\ pc \notin {"idle", "absorb", "tweak", "expand", "init", "panic"}
         => run.scratchpad = one.scratchpad

C1_Witness ==
  /\ pc = "done" /\ Valid /\ run.dirty
  /\ run.sum = one.sum /\ run.sum # NoDigest

\* C2 (as claimed): with variant 1 and fewer than 43 bytes of data, whatever
\* the capacity of the slice, Sum returns no digest.
C2_ShortInputNeverReturns ==
  (variant = 1 /\ data.len < 43) => run.sum = NoDigest

\* C3 (as claimed): with a variant outside {0, 1, 2} Sum returns no digest.
C3_InvalidVariantNeverReturns ==
  ~Valid => run.sum = NoDigest

\* C5: the digest Sum returns is that of the finalist numbered
\* finalState[0] & 3 in (BLAKE-256, Groestl-256, JH-256, Skein-256), the
\* state being the one the last Keccak permutation left, and that hasher was
\* written to exactly once, with the 200 bytes of the state.
C5_FinalistDispatch ==
  pc = "done" =>
    /\ run.h.alg = FinalistNames[(run.finalState[0] % 4) + 1]
    /\ Len(run.h.written) = 1
    /\ Len(run.h.written[1]) = 200
    /\ \A n \in 1 .. 200 :
         run.h.written[1][n] =
           (run.finalState[(n - 1) \div 8] \div (ByteMod ^ ((n - 1) % 8))) % ByteMod
    /\ run.sum = [alg |-> run.h.alg, of |-> run.h.written[1]]

C5_Witness ==
  /\ pc = "done"
  /\ run.finalState[0] % 4 = 2
  /\ run.sum.alg = "JH-256"

LoopPcs == {"round", "shuffle1", "write1", "read2", "shuffle2", "add"}

\* C9: in a variant 1 iteration the cell stored at addr after byteAdd holds
\* a + product in its low lane and (a + product) ^ tweak in its high lane,
\* the accumulator carried on is (a + product) ^ c with no tweak in it, and
\* tweak stays finalState[24] ^ LE_u64(data[35..43]) through the whole loop.
C9_TweakOnStoredCellOnly ==
  [][ /\ (pc = "add" /\ variant = 1) =>
           LET a0 == (run.a[0] + run.product[0]) % Mod
               a1 == (run.a[1] + run.product[1]) % Mod
           IN  /\ run'.scratchpad[run.addr] = a0
               /\ run'.scratchpad[run.addr + 1] = Xor(a1, run.tweak)
               /\ run'.a[0] = Xor(a0, run.c[0])
               /\ run'.a[1] = Xor(a1, run.c[1])
      /\ (pc' \in LoopPcs \cup {"final"} /\ variant' = 1) =>
           run'.tweak =
             Xor(Keccak1600State(BytesOf(data'))[24],
                 LittleEndianUint64(SubSeq(data'.arr, 36, 43))) ]_vars

C9_Witness ==
  /\ pc = "round" /\ variant = 1 /\ run.i = 2
  /\ run.tweak # 0
  /\ run.scratchpad[run.addr + 1] # Xor(run.a[1], run.c[1])

Absorbed == Keccak1600State(BytesOf(data))

FrameHolds(abs) ==
  /\ pc \in {"tweak", "expand", "init", "final"} \cup LoopPcs
       => run.finalState = abs
  /\ pc = "init"
       => run.rkeys = CnExpandKey([k \in 0 .. 3 |-> abs[k]])
  /\ pc = "final"
       => run.rkeys = CnExpandKey([k \in 0 .. 3 |-> abs[4 + k]])
  /\ (pc = "final" /\ run.i = 0)
       => \A j \in 0 .. 15 : RefRead(run, run.blocks, j) = abs[8 + j]
  /\ pc = "permute"
       => \A k \in (0 .. 7) \cup {24} : run.finalState[k] = abs[k]

\* C10: from the absorb to the finalizer's copy no step changes a lane of
\* finalState, so both key schedules and the finalizer's first blocks come
\* from the absorbed state; after the copy the lanes outside 8..23 are still
\* the absorbed ones.
C10_FinalStateFrame == FrameHolds(Absorbed)

C10_Witness ==
  /\ pc = "permute"
  /\ \E k \in 8 .. 23 : run.finalState[k] # Absorbed[k]
  /\ \A k \in (0 .. 7) \cup {24} : run.finalState[k] = Absorbed[k]

----------------------------------------------------------------------------
(* SpecShuffle, SpecDiv: one statement group of the loop on drawn operands *)

Idle ==
  /\ pc = "idle"
  /\ data = Slice(<< >>, 0)
  /\ variant = 0
  /\ run = Frame(ZeroState, ZeroPad)
  /\ one = Frame(ZeroState, ZeroPad)

\* scratchpads whose uint16 number g holds (m*g + g/d) mod 2^16
FillSet == {1, 3, 5, 7} \X {2, 16}

PadOf(f) ==
  LET lane(g) == (f[1] * g + (g \div f[2])) % U16Mod
  IN  [w \in 0 .. (ScratchWords - 1) |->
         lane(4 * w) + U16Mod * lane(4 * w + 1)
           + (U16Mod ^ 2) * lane(4 * w + 2) + (U16Mod ^ 3) * lane(4 * w + 3)]

\* every value TO_ADDR can take
AddrSet == {2 * n : n \in 0 .. ((ScratchWords \div 2) - 1)}

InitShuffle ==
  /\ Idle
  /\ geom = NoGeom
  /\ \E f \in FillSet, addr \in AddrSet :
       probe = [op |-> "operands", addr |-> addr, before |-> PadOf(f)]

ShuffleProbe ==
  /\ probe.op = "operands"
  /\ LET s == [Frame(ZeroState, probe.before) EXCEPT !.addr = probe.addr]
     IN  probe' = [op |-> "shuffle", addr |-> probe.addr,
                   before |-> probe.before,
                   after |-> ShuffleStep(s).scratchpad]
  /\ UNCHANGED <<pc, data, variant, run, one, geom>>

SpecShuffle == InitShuffle /\ [][ShuffleProbe]_vars

\* the values of a uint64 around which the division changes its behaviour
EdgeWords ==
  { 0, 1, 2, (HalfMod \div 2) - 1, HalfMod \div 2, (HalfMod \div 2) + 1,
    HalfMod - 2, HalfMod - 1, HalfMod, HalfMod + 1, 3 * HalfMod + 5,
    (Mod \div 2) - 1, Mod \div 2, (Mod \div 2) + 1, Mod - 2, Mod - 1 }

InitDiv ==
  /\ Idle
  /\ geom = NoGeom
  /\ \E b0 \in EdgeWords, b1 \in EdgeWords :
       probe = [op |-> "operands", b |-> Pair(b0, b1)]

DivProbe ==
  /\ probe.op = "operands"
  /\ LET s == [Frame(ZeroState, ZeroPad) EXCEPT !.b = probe.b]
         r == Variant2Arith(s)
     IN  probe' = [op |-> "div", b |-> probe.b,
                   dividend |-> r.dividend, divisor |-> r.divisor,
                   divisionResult |-> r.divisionResult]
  /\ UNCHANGED <<pc, data, variant, run, one, geom>>

SpecDiv == InitDiv /\ [][DivProbe]_vars

\* the uint16 number i (0 .. 23) of the cells at byte offsets addr^0x10,
\* addr^0x20, addr^0x30 of the scratchpad sp, addr counted in uint64
HalfWord(sp, addr, i) ==
  LET cell == Xor(8 * addr, 16 * ((i \div 8) + 1)) \div 8
      w == sp[cell + ((i % 8) \div 4)]
  IN  (w \div (U16Mod ^ (i % 4))) % U16Mod

ShuffleTable ==
  <<18, 22, 19, 23, 16, 17, 20, 21, 2, 5, 3, 4, 6, 7, 0, 1,
    9, 13, 8, 12, 10, 11, 14, 15>>

\* C7: VARIANT2_SHUFFLE leaves in uint16 number i of chunk0 || chunk1 ||
\* chunk2 what uint16 number P[i] held before it, all 24 read before any is
\* written; P is a bijection, so the 24 values are kept as a multiset; new
\* chunk0 comes from chunk2, new chunk1 from chunk0, new chunk2 from chunk1;
\* and no word outside the three cells changes.
C7_ShuffleIsSimultaneousPermutation ==
  probe.op = "shuffle" =>
    LET P(i) == ShuffleTable[i + 1]
        old(i) == HalfWord(probe.before, probe.addr, i)
        new(i) == HalfWord(probe.after, probe.addr, i)
        cells == {Xor(probe.addr, k) + d : k \in {2, 4, 6}, d \in {0, 1}}
    IN  /\ \A i \in 0 .. 23 : new(i) = old(P(i))
        /\ {P(i) : i \in 0 .. 23} = 0 .. 23
        /\ \A v \in 0 .. (U16Mod - 1) :
             Cardinality({i \in 0 .. 23 : new(i) = v})
               = Cardinality({i \in 0 .. 23 : old(i) = v})
        /\ \A i \in 0 .. 7 : P(i) \in 16 .. 23
        /\ \A i \in 8 .. 15 : P(i) \in 0 .. 7
        /\ \A i \in 16 .. 23 : P(i) \in 8 .. 15
        /\ Cardinality(cells) = 6
        /\ \A w \in 0 .. (ScratchWords - 1) :
             w \notin cells => probe.after[w] = probe.before[w]

C7_Witness ==
  /\ probe.op = "shuffle"
  /\ probe.addr = ScratchWords - 2
  /\ probe.after # probe.before
  /\ \E i \in 0 .. 23 :
       HalfWord(probe.after, probe.addr, i) # HalfWord(probe.before, probe.addr, i)

\* C8: the divisor of the variant 2 step is odd and lies between 0x80000001
\* and 0xffffffff (so it is not zero), the remainder is below 2^32, and
\* divisionResult carries the quotient cut to 32 bits in its low half and
\* the whole remainder in its high half.
C8_DivisionStep ==
  probe.op = "div" =>
    LET low == probe.b[0] % HalfMod
        d == probe.divisor
        q == probe.b[1] \div d
        r == probe.b[1] % d
    IN  /\ d # 0
        /\ d % 2 = 1
        /\ (HalfMod \div 2) + 1 <= d /\ d <= HalfMod - 1
        /\ d = low + (IF low < HalfMod \div 2 THEN HalfMod \div 2 ELSE 0)
                 + (IF low % 2 = 0 THEN 1 ELSE 0)
        /\ probe.dividend = probe.b[1]
        /\ r < HalfMod
        /\ probe.divisionResult = (q % HalfMod) + HalfMod * r
        /\ probe.divisionResult < Mod

C8_Witness ==
  /\ probe.op = "div"
  /\ probe.b[1] \div probe.divisor >= HalfMod
  /\ probe.b[1] % probe.divisor >= HalfMod \div 2
  /\ probe.divisionResult \div HalfMod = probe.b[1] % probe.divisor

----------------------------------------------------------------------------
(* SpecGeom: the loops of Sum with the constants of the source.  What the  *)
(* scratchpad holds is left out; the accumulators a and b of an iteration  *)
(* are any uint64, held as four uint16, lowest first.                      *)

\* len(cache.scratchpad)
PadLen == (2 * 1024 * 1024) \div 8

\* the mask of TO_ADDR, 0x1ffff0
ToAddrMask == 2097136

U16 == 2 ^ 16

\* x & m, x a uint64 in four uint16 and 0 <= m < 2^31
And64(x, m) ==
  And(x[1], m % U16) + U16 * And(x[2], (m \div U16) % U16)

\* a slip: the mask 0x1ffff8 keeps bit 3
TO_ADDR64_Bit3(x) == And64(x, 2097144) \div 8

\* TO_ADDR(a), a[0] in four uint16
TO_ADDR64(x) == And64(x, ToAddrMask) \div 8

\* the uint64 an iteration reads or writes around addr
Accessed(addr, v) ==
  {addr, addr + 1}
    \cup (IF v = 2
          THEN {Xor(addr, k) + d : k \in {2, 4, 6}, d \in {0, 1}}
          ELSE {})

LowLimbs == {0, 15, 16, 32760, 65520, 65528, 65535}
NextLimbs == {0, 16, 31, 32, 65535}
HighLimbs == {0, 65535}

\* a slip: j++ in place of j += 2
SubBlockStarts_EveryWord == 0 .. 15

\* the values j takes in for j := 0; j < 16; j += 2
SubBlockStarts == {j \in 0 .. 15 : j % 2 = 0}

\* one pass of for i := 0; i < 2*1024*1024/8; i += 16 { for j ... }
ChunkOfPass(g) ==
  [g EXCEPT !.i = g.i + 16,
            !.chunks = g.chunks + 1,
            !.subBlocks = g.subBlocks + Cardinality(SubBlockStarts),
            !.rounds = g.rounds + RoundsPerCall * Cardinality(SubBlockStarts),
            !.words = g.words
                        + Cardinality(UNION {{g.i + j, g.i + j + 1} : j \in SubBlockStarts}),
            !.top = g.i + 15]

Pass(name) ==
  [pc |-> name, variant |-> 0, i |-> 0, chunks |-> 0, subBlocks |-> 0,
   rounds |-> 0, words |-> 0, top |-> 0]

GeomVars == <<pc, data, variant, run, one, probe>>

GInitChunk ==
  /\ geom.pc = "init"
  /\ geom.i < PadLen
  /\ geom' = ChunkOfPass(geom)
  /\ UNCHANGED GeomVars

\* the init loop ends; the variant of the call matters from here on
GInitEnd ==
  /\ geom.pc = "init"
  /\ ~(geom.i < PadLen)
  /\ \E v \in 0 .. 2 : geom' = [geom EXCEPT !.pc = "initdone", !.variant = v]
  /\ UNCHANGED GeomVars

\* the first half of an iteration of the memory-hard loop, for any a
GIterA ==
  /\ geom.pc \in {"initdone", "iter"}
  /\ \E a0 \in LowLimbs, a1 \in NextLimbs, a2 \in HighLimbs, a3 \in HighLimbs :
       LET addr == TO_ADDR64(<<a0, a1, a2, a3>>)
       IN  geom' = [pc |-> "half", variant |-> geom.variant,
                    addr1 |-> addr, addr2 |-> 0,
                    touched |-> Accessed(addr, geom.variant)]
  /\ UNCHANGED GeomVars

\* the second half, for any b
GIterB ==
  /\ geom.pc = "half"
  /\ \E b0 \in LowLimbs, b1 \in NextLimbs, b2 \in HighLimbs, b3 \in HighLimbs :
       LET addr == TO_ADDR64(<<b0, b1, b2, b3>>)
       IN  geom' = [geom EXCEPT !.pc = "iter", !.addr2 = addr,
                      !.touched = geom.touched \cup Accessed(addr, geom.variant)]
  /\ UNCHANGED GeomVars

GFinalStart ==
  /\ geom.pc \in {"initdone", "iter"}
  /\ geom' = Pass("final")
  /\ UNCHANGED GeomVars

GFinalChunk ==
  /\ geom.pc = "final"
  /\ geom.i < PadLen
  /\ geom' = ChunkOfPass(geom)
  /\ UNCHANGED GeomVars

GFinalEnd ==
  /\ geom.pc = "final"
  /\ ~(geom.i < PadLen)
  /\ geom' = [geom EXCEPT !.pc = "finaldone"]
  /\ UNCHANGED GeomVars

NextGeom ==
  \/ GInitChunk \/ GInitEnd \/ GIterA \/ GIterB \/ GFinalStart \/ GFinalChunk \/ GFinalEnd

InitGeom ==
  /\ Idle
  /\ probe = NoProbe
  /\ geom = Pass("init")

SpecGeom == InitGeom /\ [][NextGeom]_vars

\* C4: in every iteration, whatever a, b and the variant are, TO_ADDR is
\* even and below 262144 (the cell index below 131072, the byte offset a
\* multiple of 16), and every uint64 the iteration reads or writes, the
\* three shuffled cells of variant 2 included, lies in the scratchpad.
C4_AddressMasking ==
  geom.pc = "iter" =>
    /\ \A addr \in {geom.addr1, geom.addr2} :
         /\ addr % 2 = 0
         /\ 0 <= addr /\ addr < 262144
         /\ addr \div 2 \in 0 .. 131071
         /\ (8 * addr) % 16 = 0
         /\ addr + 1 < 262144
         /\ geom.variant = 2 =>
              \A k \in {16, 32, 48} :
                LET cell == Xor(8 * addr, k)
                IN  /\ cell % 16 = 0
                    /\ 0 <= cell /\ cell + 16 <= 8 * 262144
                    /\ {cell \div 8, (cell \div 8) + 1} \subseteq geom.touched
    /\ \A w \in geom.touched : 0 <= w /\ w < PadLen

C4_Witness ==
  /\ geom.pc = "iter"
  /\ geom.variant = 2
  /\ geom.addr1 = 262142
  /\ geom.addr2 = 0
  /\ 262143 \in geom.touched
  /\ Cardinality(geom.touched) = 16

PassDone == geom.pc \in {"initdone", "finaldone"}

\* C6 (as claimed): each pass takes 131,072 chunks of 128 bytes, with
\* CnRounds on the eight sub-blocks of each.
C6_ChunksAsClaimed ==
  PassDone =>
    /\ geom.chunks = 131072
    /\ geom.rounds = 131072 * 8 * 10

\* C6 (amended): each pass takes the scratchpad in 16,384 chunks of 128
\* bytes and calls CnRounds, ten rounds, on each of the eight 128-bit
\* sub-blocks of every chunk: 131,072 calls, 16,384 x 8 x 10 rounds, over
\* all 262,144 words.
C6_ChunksPerPass ==
  PassDone =>
    /\ geom.chunks = 16384
    /\ geom.chunks * 128 = 2 * 1024 * 1024
    /\ geom.subBlocks = 8 * geom.chunks
    /\ geom.subBlocks = 131072
    /\ geom.rounds = 16384 * 8 * 10
    /\ geom.words = 262144
    /\ geom.top = 262143

C6_Witness ==
  /\ geom.pc = "finaldone"
  /\ geom.chunks = 16384
  /\ geom.i = PadLen

====
